---- MODULE Spec2Model ----
(***************************************************************************)
(* Model of src/src/data_processing/data_processing.py: the role           *)
(* directory loader (process_ldap_data), the log pipeline                  *)
(* (generate_narratives) and the per-day summarizer                        *)
(* (create_summary_from_events with its closure flush_web_buffer).         *)
(*                                                                         *)
(* Text is modelled as TLA+ strings; a text that the code splits (the raw  *)
(* user field, a url) is a sequence of tokens, each token either the       *)
(* separator character "/" or a slash-free piece of text.  A timestamp is  *)
(* the number of seconds since 00:00:00 of day 0.                          *)
(***************************************************************************)
EXTENDS Integers, Sequences, FiniteSets, TLC

VARIABLES
    \* ---- one run of the script (process_ldap_data, generate_narratives)
    phase,                \* position of the script
    ldap_files,           \* the role directory: a sequence of files, each a sequence of rows
    logon_csv,            \* raw rows of logon.csv
    device_csv,           \* raw rows of device.csv
    http_csv,             \* raw rows of http.csv
    user_role_map,        \* result of process_ldap_data
    all_events,           \* the list of the three normalized frames
    final_df,             \* the concatenated, then sorted frame
    groups,               \* the groups of groupby(['user_id', 'date_only'])
    narratives,           \* the rows of the returned frame
    \* ---- invocations of create_summary_from_events, one per call
    calls,                \* calls[i]: the events argument of invocation i
    frame,                \* frame[i]: where invocation i stands
    cursor,               \* cursor[i]: index of the next row of events.iterrows()
    narrative_parts,      \* narrative_parts[i]: the local list of sentences
    web_activity_buffer,  \* the local buffers, one per slot
    returned              \* returned[i]: the string invocation i returned

vars == <<phase, ldap_files, logon_csv, device_csv, http_csv, user_role_map,
          all_events, final_df, groups, narratives,
          calls, frame, cursor, narrative_parts, web_activity_buffer, returned>>

pipeline_vars == <<phase, ldap_files, logon_csv, device_csv, http_csv, user_role_map,
                   all_events, final_df, groups, narratives>>

summary_vars == <<calls, frame, cursor, narrative_parts, web_activity_buffer, returned>>

-----------------------------------------------------------------------------
(* Bounds of the model *)

\* longest event list handed to a single direct invocation of the summarizer
MaxEvents == 4

\* largest number of summarizer invocations in progress at once
MaxCalls == 2

\* most rows of logon.csv, device.csv and http.csv
MaxLogonRows == 2

MaxDeviceRows == 1

MaxHttpRows == 2

-----------------------------------------------------------------------------
(* Values *)

\* pandas' missing value (NaN / NaT) in a column of strings
NaN == "NaN"

\* str.__lt__ on the identifiers the code compares (sort_values, groupby, mode):
\* the strings of the model in ascending order
StrOrder == <<"PC-01", "PC-02", "u123", "u456">>

StrRank(s) == CHOOSE k \in 1..Len(StrOrder) : StrOrder[k] = s

StrLess(a, b) == StrRank(a) < StrRank(b)

RECURSIVE Concat(_)
\* the text a sequence of tokens spells
Concat(tokens) ==
    IF tokens = <<>> THEN "" ELSE Head(tokens) \o Concat(Tail(tokens))

RECURSIVE SplitFrom(_, _, _)
SplitFrom(tokens, n, cur) ==
    IF tokens = <<>> THEN <<cur>>
    ELSE IF Len(tokens) >= n /\ \A k \in 1..n : tokens[k] = "/"
         THEN <<cur>> \o SplitFrom(SubSeq(tokens, n + 1, Len(tokens)), n, <<>>)
         ELSE SplitFrom(Tail(tokens), n, Append(cur, Head(tokens)))

\* str.split(sep) for sep a run of n slashes: leftmost, non-overlapping
Split(tokens, n) == SplitFrom(tokens, n, <<>>)

Pad2(n) == IF n < 10 THEN "0" \o ToString(n) ELSE ToString(n)

\* Timestamp.strftime('%H:%M:%S')
Strftime(ts) ==
    LET s == ts % 86400
    IN  Pad2(s \div 3600) \o ":" \o Pad2((s % 3600) \div 60) \o ":" \o Pad2(s % 60)

RECURSIVE JoinWith(_, _)
\* sep.join(parts)
JoinWith(sep, parts) ==
    IF parts = <<>> THEN ""
    ELSE IF Len(parts) = 1 THEN parts[1]
    ELSE parts[1] \o sep \o JoinWith(sep, Tail(parts))

-----------------------------------------------------------------------------
(* create_summary_from_events *)

\* item['url'].split('//')[-1].split('/')[0]
Domain(url) ==
    LET rest == Split(url, 2)[Len(Split(url, 2))]
    IN  Concat(Split(rest, 1)[1])

RECURSIVE CountIn(_, _)
CountIn(x, s) ==
    IF s = <<>> THEN 0
    ELSE (IF Head(s) = x THEN 1 ELSE 0) + CountIn(x, Tail(s))

RECURSIVE FirstOccurrences(_, _)
FirstOccurrences(s, seen) ==
    IF s = <<>> THEN seen
    ELSE FirstOccurrences(Tail(s),
             IF \E k \in 1..Len(seen) : seen[k] = Head(s) THEN seen
             ELSE Append(seen, Head(s)))

\* Counter(list): the (element, count) pairs in insertion order
Counter(s) ==
    LET keys == FirstOccurrences(s, <<>>)
    IN  [k \in 1..Len(keys) |-> <<keys[k], CountIn(keys[k], s)>>]

RECURSIVE InsertByCountUnstable(_, _)
\* faulty variant: item goes before the entries of equal count
InsertByCountUnstable(sorted, item) ==
    IF sorted = <<>> THEN <<item>>
    ELSE IF Head(sorted)[2] > item[2]
         THEN <<Head(sorted)>> \o InsertByCountUnstable(Tail(sorted), item)
         ELSE <<item>> \o sorted

RECURSIVE InsertByCount(_, _)
\* insert item after every entry whose count is not smaller (stable, descending)
InsertByCount(sorted, item) ==
    IF sorted = <<>> THEN <<item>>
    ELSE IF Head(sorted)[2] >= item[2]
         THEN <<Head(sorted)>> \o InsertByCount(Tail(sorted), item)
         ELSE <<item>> \o sorted

RECURSIVE SortByCount(_, _)
SortByCount(items, acc) ==
    IF items = <<>> THEN acc
    ELSE SortByCount(Tail(items), InsertByCount(acc, Head(items)))

\* Counter.most_common(n): by count descending, equal counts in insertion order
MostCommon(counter, n) ==
    LET all == SortByCount(counter, <<>>)
    IN  SubSeq(all, 1, IF Len(all) < n THEN Len(all) ELSE n)

\* faulty variant: of the most frequent values, the one that occurs first
ModeFirstOccurrence(s) ==
    LET vals == {s[k] : k \in 1..Len(s)}
        top  == {v \in vals : \A w \in vals : CountIn(w, s) <= CountIn(v, s)}
    IN  s[CHOOSE k \in 1..Len(s) : s[k] \in top /\ \A j \in 1..(k - 1) : s[j] \notin top]

\* Series.mode().iloc[0]: the most frequent values sorted ascending, the first
Mode(s) ==
    LET vals  == {s[k] : k \in 1..Len(s)}
        top   == {v \in vals : \A w \in vals : CountIn(w, s) <= CountIn(v, s)}
    IN  CHOOSE v \in top : \A w \in top : w = v \/ StrLess(v, w)

\* the f-string of line 39
Header(events) ==
    "User " \o events[1].user_id \o " (Role: " \o events[1].role \o ") on "
        \o Mode([k \in 1..Len(events) |-> events[k].pc]) \o ":"

StartTime(buffer) == Strftime(buffer[1].timestamp)

EndTime(buffer) == Strftime(buffer[Len(buffer)].timestamp)

\* faulty variant: the total counts distinct domains instead of visits
TotalVisitsDistinct(buffer) ==
    Cardinality({ Domain(buffer[k].url) : k \in 1..Len(buffer) })
TotalVisits(buffer) == Len(buffer)

TopDomainsStr(buffer) ==
    LET domain_counts == Counter([k \in 1..Len(buffer) |-> Domain(buffer[k].url)])
        top_domains   == MostCommon(domain_counts, 3)
    IN  JoinWith(", ", [k \in 1..Len(top_domains) |->
            top_domains[k][1] \o " (" \o ToString(top_domains[k][2]) \o " times)"])

\* the f-string of line 60
WebSentence(buffer) ==
    "Between " \o StartTime(buffer) \o " and " \o EndTime(buffer) \o ", visited "
        \o ToString(TotalVisits(buffer)) \o " websites, including "
        \o TopDomainsStr(buffer) \o "."

\* faulty variant: the buffer is not cleared after the sentence is appended
flush_web_bufferKeepsBuffer(st) ==
    IF st.buffer = <<>> THEN st
    ELSE [parts  |-> Append(st.parts, WebSentence(st.buffer)),
          buffer |-> st.buffer]

\* flush_web_buffer() on the closure's (narrative_parts, web_activity_buffer)
flush_web_buffer(st) ==
    IF st.buffer = <<>> THEN st
    ELSE [parts  |-> Append(st.parts, WebSentence(st.buffer)),
          buffer |-> <<>>]

\* faulty variant: the templates of opposite activities are exchanged
EventSentenceSwapped(event) ==
    LET time_str == Strftime(event.timestamp)
    IN  CASE event.activity_type = "logon"  -> <<"Logged off at " \o time_str \o ".">>
          [] event.activity_type = "logoff" -> <<"Logged on at " \o time_str \o ".">>
          [] event.activity_type = "device_connect" ->
                 <<"Disconnected a USB device at " \o time_str \o ".">>
          [] event.activity_type = "device_disconnect" ->
                 <<"Connected a USB device at " \o time_str \o ".">>
          [] OTHER -> <<>>

\* the sentence appended for one row by the if/elif chain of lines 72-79
EventSentence(event) ==
    LET time_str == Strftime(event.timestamp)
    IN  CASE event.activity_type = "logon"  -> <<"Logged on at " \o time_str \o ".">>
          [] event.activity_type = "logoff" -> <<"Logged off at " \o time_str \o ".">>
          [] event.activity_type = "device_connect" ->
                 <<"Connected a USB device at " \o time_str \o ".">>
          [] event.activity_type = "device_disconnect" ->
                 <<"Disconnected a USB device at " \o time_str \o ".">>
          [] OTHER -> <<>>

\* faulty variant: a non-http row does not flush the pending web activity
LoopBodyNoFlush(st, event) ==
    [parts  |-> st.parts \o EventSentence(event),
     buffer |-> IF event.activity_type = "http"
                THEN Append(st.buffer, event) ELSE st.buffer]

\* one iteration of the loop of lines 64-82
LoopBody(st, event) ==
    LET flushed == IF event.activity_type # "http" THEN flush_web_buffer(st) ELSE st
    IN  [parts  |-> flushed.parts \o EventSentence(event),
         buffer |-> IF event.activity_type = "http"
                    THEN Append(flushed.buffer, event) ELSE flushed.buffer]

RECURSIVE Scan(_, _)
Scan(st, events) ==
    IF events = <<>> THEN st ELSE Scan(LoopBody(st, Head(events)), Tail(events))

\* create_summary_from_events(events), run from call to return
create_summary_from_events(events) ==
    IF events = <<>> THEN ""
    ELSE JoinWith(" ", flush_web_buffer(
             Scan([parts |-> <<Header(events)>>, buffer |-> <<>>], events)).parts)

-----------------------------------------------------------------------------
(* Inputs of direct invocations of create_summary_from_events *)

\* the timestamp of day d at h:m:s
At(d, h, m, s) == d * 86400 + h * 3600 + m * 60 + s

\* a row of a (user, day) group of final_df: user u123, role ITAdmin, day 1
Ev(ts, pc, activity_type, url) ==
    [timestamp |-> ts, user_id |-> "u123", role |-> "ITAdmin", pc |-> pc,
     activity_type |-> activity_type, url |-> url]

LogonAt8 == Ev(At(1, 8, 0, 0), "PC-01", "logon", <<NaN>>)

ConnectAt8 == Ev(At(1, 8, 0, 0), "PC-02", "device_connect", <<NaN>>)

ExampleAt9 ==
    Ev(At(1, 9, 0, 0), "PC-01", "http", <<"http:", "/", "/", "example.com", "/", "a">>)

MailAt9 == Ev(At(1, 9, 0, 0), "PC-02", "http", <<"http:", "/", "/", "mail.net">>)

DisconnectAt9 == Ev(At(1, 9, 0, 0), "PC-02", "device_disconnect", <<NaN>>)

TestAt905 ==
    Ev(At(1, 9, 5, 0), "PC-01", "http", <<"http:", "/", "/", "test.org", "/", "x", "/", "y">>)

ExampleAt905 ==
    Ev(At(1, 9, 5, 0), "PC-02", "http", <<"https:", "/", "/", "example.com", "/">>)

ExampleAt910 ==
    Ev(At(1, 9, 10, 0), "PC-01", "http", <<"http:", "/", "/", "example.com", "/", "b">>)

IntranetAt910 == Ev(At(1, 9, 10, 0), "PC-02", "http", <<"intranet", "/", "home">>)

\* http://example.com/go?to=http://evil.net/x
RedirectAt910 ==
    Ev(At(1, 9, 10, 0), "PC-01", "http",
       <<"http:", "/", "/", "example.com", "/", "go?to=http:", "/", "/", "evil.net", "/", "x">>)

LogoffAt17 == Ev(At(1, 17, 0, 0), "PC-02", "logoff", <<NaN>>)

SampleEvents ==
    { LogonAt8, ConnectAt8, ExampleAt9, MailAt9, DisconnectAt9, TestAt905, ExampleAt905,
      ExampleAt910, IntranetAt910, RedirectAt910, LogoffAt17 }

\* a group is in timestamp order (line 124)
IsChronological(events) ==
    \A k \in 1..(Len(events) - 1) : events[k].timestamp <= events[k + 1].timestamp

\* the event lists handed to a single invocation, the empty one included
Buckets ==
    { b \in UNION { [1..n -> SampleEvents] : n \in 0..MaxEvents } : IsChronological(b) }

\* the event lists of invocations that are in progress together
SmallBuckets ==
    { <<ExampleAt9, TestAt905>>, <<LogonAt8, ExampleAt9>>, <<MailAt9, LogoffAt17>>,
      <<LogonAt8>>, <<>> }

-----------------------------------------------------------------------------
(* One invocation of create_summary_from_events, row by row *)

CallIds == 1..Len(calls)

\* the web_activity_buffer of invocation i: a fresh list per call (line 43)
\* faulty variant: one module-level buffer shared by every invocation
SharedBufferSlot(i) == 1
BufferSlot(i) == i

\* faulty variant: the closure reads the buffer of the first invocation
ClosureOfFirstCall(i) ==
    [parts |-> narrative_parts[i], buffer |-> web_activity_buffer[1]]

Closure(i) ==
    [parts |-> narrative_parts[i], buffer |-> web_activity_buffer[BufferSlot(i)]]

\* faulty variant: no empty check, so events.iloc[0] raises IndexError on an empty frame
SummaryEnterUnguarded(i) ==
    /\ frame[i] = "called"
    /\ IF calls[i] = <<>>
       THEN /\ frame' = [frame EXCEPT ![i] = "index_error"]
            /\ UNCHANGED <<cursor, narrative_parts, web_activity_buffer, returned>>
       ELSE /\ frame' = [frame EXCEPT ![i] = "loop"]
            /\ narrative_parts' = [narrative_parts EXCEPT ![i] = <<Header(calls[i])>>]
            /\ web_activity_buffer' =
                   [web_activity_buffer EXCEPT ![BufferSlot(i)] = <<>>]
            /\ cursor' = [cursor EXCEPT ![i] = 1]
            /\ UNCHANGED returned
    /\ UNCHANGED <<calls, pipeline_vars>>

\* lines 28-43: the empty check, the header, the fresh buffer
SummaryEnter(i) ==
    /\ frame[i] = "called"
    /\ IF calls[i] = <<>>
       THEN /\ frame' = [frame EXCEPT ![i] = "returned"]
            /\ returned' = [returned EXCEPT ![i] = ""]
            /\ UNCHANGED <<cursor, narrative_parts, web_activity_buffer>>
       ELSE /\ frame' = [frame EXCEPT ![i] = "loop"]
            /\ narrative_parts' = [narrative_parts EXCEPT ![i] = <<Header(calls[i])>>]
            /\ web_activity_buffer' =
                   [web_activity_buffer EXCEPT ![BufferSlot(i)] = <<>>]
            /\ cursor' = [cursor EXCEPT ![i] = 1]
            /\ UNCHANGED returned
    /\ UNCHANGED <<calls, pipeline_vars>>

\* lines 64-82: one row of events.iterrows()
SummaryIterate(i) ==
    /\ frame[i] = "loop"
    /\ cursor[i] <= Len(calls[i])
    /\ LET st == LoopBody(Closure(i), calls[i][cursor[i]])
       IN  /\ narrative_parts' = [narrative_parts EXCEPT ![i] = st.parts]
           /\ web_activity_buffer' =
                  [web_activity_buffer EXCEPT ![BufferSlot(i)] = st.buffer]
    /\ cursor' = [cursor EXCEPT ![i] = @ + 1]
    /\ UNCHANGED <<calls, frame, returned, pipeline_vars>>

\* lines 84-87: the last flush and the join
SummaryReturn(i) ==
    /\ frame[i] = "loop"
    /\ cursor[i] > Len(calls[i])
    /\ LET st == flush_web_buffer(Closure(i))
       IN  /\ narrative_parts' = [narrative_parts EXCEPT ![i] = st.parts]
           /\ web_activity_buffer' =
                  [web_activity_buffer EXCEPT ![BufferSlot(i)] = st.buffer]
           /\ returned' = [returned EXCEPT ![i] = JoinWith(" ", st.parts)]
    /\ frame' = [frame EXCEPT ![i] = "returned"]
    /\ UNCHANGED <<calls, cursor, pipeline_vars>>

PipelineIdle ==
    /\ phase = "direct"
    /\ ldap_files = <<>> /\ logon_csv = <<>> /\ device_csv = <<>> /\ http_csv = <<>>
    /\ user_role_map = <<>> /\ all_events = <<>> /\ final_df = <<>>
    /\ groups = <<>> /\ narratives = <<>>

SummaryStart(cs) ==
    /\ calls = cs
    /\ frame = [i \in 1..Len(cs) |-> "called"]
    /\ cursor = [i \in 1..Len(cs) |-> 0]
    /\ narrative_parts = [i \in 1..Len(cs) |-> <<>>]
    /\ web_activity_buffer = [i \in 1..Len(cs) |-> <<>>]
    /\ returned = [i \in 1..Len(cs) |-> ""]

\* one invocation on any bucket, or several invocations on small buckets
InitSummary ==
    /\ PipelineIdle
    /\ \E cs \in { <<b>> : b \in Buckets }
              \cup UNION { [1..n -> SmallBuckets] : n \in 2..MaxCalls } :
           SummaryStart(cs)

NextSummary ==
    \/ \E i \in CallIds : SummaryEnter(i)
    \/ \E i \in CallIds : SummaryIterate(i)
    \/ \E i \in CallIds : SummaryReturn(i)

\* invocations of the summarizer, their rows interleaved in any order
SpecSummary == InitSummary /\ [][NextSummary]_vars

-----------------------------------------------------------------------------
(* process_ldap_data *)

RECURSIVE Flatten(_)
\* pd.concat(frames, ignore_index=True): the rows of the frames, in order
Flatten(frames) ==
    IF frames = <<>> THEN <<>> ELSE Head(frames) \o Flatten(Tail(frames))

\* faulty variant: keep='first'
DropDuplicatesKeepFirst(rows) ==
    LET First(k) == \A j \in 1..(k - 1) : rows[j].user_id # rows[k].user_id
        RECURSIVE Keep(_)
        Keep(k) == IF k > Len(rows) THEN <<>>
                   ELSE (IF First(k) THEN <<rows[k]>> ELSE <<>>) \o Keep(k + 1)
    IN  Keep(1)

\* faulty variant: no deduplication
DropDuplicatesSkipped(rows) == rows

\* drop_duplicates(subset='user_id', keep='last')
DropDuplicatesKeepLast(rows) ==
    LET Last(k) == \A j \in (k + 1)..Len(rows) : rows[j].user_id # rows[k].user_id
        RECURSIVE Keep(_)
        Keep(k) == IF k > Len(rows) THEN <<>>
                   ELSE (IF Last(k) THEN <<rows[k]>> ELSE <<>>) \o Keep(k + 1)
    IN  Keep(1)

\* process_ldap_data(ldap_path): lines 12-21
process_ldap_data(files) ==
    IF files = <<>> THEN <<>>
    ELSE LET ldap_df == Flatten(files)
             renamed == [k \in 1..Len(ldap_df) |->
                            [user_id |-> ldap_df[k].user_id, role |-> ldap_df[k].Role]]
         IN  DropDuplicatesKeepLast(renamed)

-----------------------------------------------------------------------------
(* generate_narratives: the three sources *)

\* df['user'].str.split('/').str[1]: the second piece, missing when there is none
UserId(user) ==
    LET pieces == Split(user, 1)
    IN  IF Len(pieces) >= 2 THEN Concat(pieces[2]) ELSE NaN

\* pd.to_datetime on the date text "01/<day>/2010 <h>:<m>:<s>", kept as its fields
ToDatetime(date) == At(date[1], date[2], date[3], date[4])

\* faulty variant: an inner merge, which pairs nothing with an unmatched left row
MatchedRolesInner(user_id, role_map) ==
    LET RECURSIVE Hits(_)
        Hits(k) == IF k > Len(role_map) THEN <<>>
                   ELSE (IF role_map[k].user_id = user_id
                         THEN <<role_map[k].role>> ELSE <<>>) \o Hits(k + 1)
    IN  Hits(1)

\* the roles pd.merge(..., on='user_id', how='left') pairs with one left row
MatchedRoles(user_id, role_map) ==
    LET RECURSIVE Hits(_)
        Hits(k) == IF k > Len(role_map) THEN <<>>
                   ELSE (IF role_map[k].user_id = user_id
                         THEN <<role_map[k].role>> ELSE <<>>) \o Hits(k + 1)
    IN  IF Hits(1) = <<>> THEN <<NaN>> ELSE Hits(1)

\* faulty variant: the merge result is used without fillna
FillRoleKeepMissing(role) == role

\* .fillna({'role': 'Unknown'})
FillRole(role) == IF role = NaN THEN "Unknown" ELSE role

\* faulty variant: the test is on "Logoff", every other value becomes a logon
LogonActivityByLogoff(x) == IF x = "Logoff" THEN "logoff" ELSE "logon"

LogonActivity(x) == IF x = "Logon" THEN "logon" ELSE "logoff"

DeviceActivity(x) == IF x = "Connect" THEN "device_connect" ELSE "device_disconnect"

\* the frame appended to all_events for one source: lines 99-103, 107-111, 116-120
Normalize(rows, role_map, source) ==
    LET RowEvents(r) ==
            LET uid   == UserId(r.user)
                roles == MatchedRoles(uid, role_map)
            IN  [k \in 1..Len(roles) |->
                    [timestamp     |-> ToDatetime(r.date),
                     user_id       |-> uid,
                     role          |-> FillRole(roles[k]),
                     pc            |-> r.pc,
                     activity_type |-> CASE source = "logon"  -> LogonActivity(r.activity)
                                         [] source = "device" -> DeviceActivity(r.activity)
                                         [] OTHER             -> "http",
                     url           |-> IF source = "http" THEN r.url ELSE <<NaN>>]]
    IN  Flatten([k \in 1..Len(rows) |-> RowEvents(rows[k])])

-----------------------------------------------------------------------------
(* generate_narratives: merge, sort, group, summarize *)

\* the order of sort_values(by=['user_id', 'timestamp']): missing user_id last
SortKeyLess(a, b) ==
    \/ a.user_id # NaN /\ b.user_id = NaN
    \/ a.user_id # NaN /\ b.user_id # NaN /\ StrLess(a.user_id, b.user_id)
    \/ a.user_id = b.user_id /\ a.timestamp < b.timestamp

\* faulty variant: row goes before the rows of equal key, so equal keys are reversed
RECURSIVE InsertUnstable(_, _)
InsertUnstable(sorted, row) ==
    IF sorted = <<>> THEN <<row>>
    ELSE IF SortKeyLess(Head(sorted), row)
         THEN <<Head(sorted)>> \o InsertUnstable(Tail(sorted), row)
         ELSE <<row>> \o sorted

RECURSIVE InsertRow(_, _)
\* row goes after every row whose key is not greater: equal keys keep their order
InsertRow(sorted, row) ==
    IF sorted = <<>> THEN <<row>>
    ELSE IF SortKeyLess(row, Head(sorted))
         THEN <<row>> \o sorted
         ELSE <<Head(sorted)>> \o InsertRow(Tail(sorted), row)

RECURSIVE SortRows(_, _)
SortRows(rows, acc) ==
    IF rows = <<>> THEN acc ELSE SortRows(Tail(rows), InsertRow(acc, Head(rows)))

\* DataFrame.sort_values on two columns (pandas sorts several keys with a lexsort)
SortValues(rows) == SortRows(rows, <<>>)

\* pd.concat(all_events, ignore_index=True): each row gets its position as index
ConcatEvents(frames) ==
    LET rows == Flatten(frames)
    IN  [k \in 1..Len(rows) |->
            [index |-> k - 1, timestamp |-> rows[k].timestamp,
             user_id |-> rows[k].user_id, role |-> rows[k].role, pc |-> rows[k].pc,
             activity_type |-> rows[k].activity_type, url |-> rows[k].url]]

\* Timestamp.date(), as the day number
DateOnly(ts) == ts \div 86400

RECURSIVE SelectRowsReversed(_, _, _)
\* faulty variant: the rows of a group come out in reverse frame order
SelectRowsReversed(rows, user_id, date) ==
    IF rows = <<>> THEN <<>>
    ELSE SelectRowsReversed(Tail(rows), user_id, date)
         \o (IF Head(rows).user_id = user_id /\ DateOnly(Head(rows).timestamp) = date
             THEN <<Head(rows)>> ELSE <<>>)

RECURSIVE SelectRows(_, _, _)
SelectRows(rows, user_id, date) ==
    IF rows = <<>> THEN <<>>
    ELSE (IF Head(rows).user_id = user_id /\ DateOnly(Head(rows).timestamp) = date
          THEN <<Head(rows)>> ELSE <<>>) \o SelectRows(Tail(rows), user_id, date)

GroupKeyLess(a, b) ==
    \/ StrLess(a[1], b[1])
    \/ a[1] = b[1] /\ a[2] < b[2]

RECURSIVE SortKeys(_)
SortKeys(keys) ==
    IF keys = {} THEN <<>>
    ELSE LET least == CHOOSE a \in keys : \A b \in keys : a = b \/ GroupKeyLess(a, b)
         IN  <<least>> \o SortKeys(keys \ {least})

\* the keys groupby keeps: rows with a missing key are left out (dropna=True)
GroupKeys(rows) ==
    { <<rows[k].user_id, DateOnly(rows[k].timestamp)>> :
        k \in { j \in 1..Len(rows) : rows[j].user_id # NaN } }

\* groupby(['user_id', 'date_only']): the groups in key order, rows in frame order
GroupBy(rows) ==
    LET keys == SortKeys(GroupKeys(rows))
    IN  [k \in 1..Len(keys) |->
            [user_id |-> keys[k][1], date_only |-> keys[k][2],
             events  |-> SelectRows(rows, keys[k][1], keys[k][2])]]

-----------------------------------------------------------------------------
(* Inputs of a run of the script *)

User(name) == <<"DTAA", "/", name>>

LogonRows ==
    { [date |-> <<1, 8, 0, 0>>, user |-> User("u123"), pc |-> "PC-01", activity |-> "Logon"],
      [date |-> <<1, 8, 0, 0>>, user |-> User("u123"), pc |-> "PC-02", activity |-> "Logoff"],
      [date |-> <<1, 8, 0, 0>>, user |-> <<"u456">>,   pc |-> "PC-01", activity |-> "Unlock"] }

DeviceRows ==
    { [date |-> <<1, 8, 0, 0>>, user |-> User("u123"), pc |-> "PC-02", activity |-> "Connect"],
      [date |-> <<2, 0, 0, 0>>, user |-> User("u123"), pc |-> "PC-01",
       activity |-> "Disconnect"] }

HttpRows ==
    { [id |-> "h1", date |-> <<1, 8, 0, 0>>, user |-> User("u123"), pc |-> "PC-01",
       url |-> <<"http:", "/", "/", "example.com", "/", "a">>, content |-> "a"],
      [id |-> "h2", date |-> <<2, 9, 0, 0>>, user |-> User("u456"), pc |-> "PC-02",
       url |-> <<"http:", "/", "/", "test.org">>, content |-> "b"],
      [id |-> "h3", date |-> <<1, 7, 30, 0>>, user |-> User("u123"), pc |-> "PC-02",
       url |-> <<"http:", "/", "/", "mail.net", "/">>, content |-> "c"] }

LdapFileA == << [user_id |-> "u123", Role |-> "ITAdmin"] >>

LdapFileB == << [user_id |-> "u123", Role |-> "Engineer"],
                [user_id |-> "u456", Role |-> "Sales"] >>

\* the role directories: no file, one file, two files in either reading order
LdapDirs == { <<>>, <<LdapFileA>>, <<LdapFileA, LdapFileB>>, <<LdapFileB, LdapFileA>> }

SeqsUpTo(S, n) == UNION { [1..k -> S] : k \in 0..n }

-----------------------------------------------------------------------------
(* One run of the script: the __main__ block, lines 150-153 *)

NoCalls ==
    /\ calls = <<>> /\ frame = <<>> /\ cursor = <<>>
    /\ narrative_parts = <<>> /\ web_activity_buffer = <<>> /\ returned = <<>>

Init ==
    /\ phase = "start"
    /\ ldap_files \in LdapDirs
    /\ logon_csv \in SeqsUpTo(LogonRows, MaxLogonRows)
    /\ device_csv \in SeqsUpTo(DeviceRows, MaxDeviceRows)
    /\ http_csv \in SeqsUpTo(HttpRows, MaxHttpRows)
    /\ user_role_map = <<>>
    /\ all_events = <<>>
    /\ final_df = <<>>
    /\ groups = <<>>
    /\ narratives = <<>>
    /\ NoCalls

\* line 150
ProcessLdap ==
    /\ phase = "start"
    /\ user_role_map' = process_ldap_data(ldap_files)
    /\ phase' = "ldap"
    /\ UNCHANGED <<ldap_files, logon_csv, device_csv, http_csv, all_events, final_df,
                   groups, narratives, summary_vars>>

\* lines 97-103
ProcessLogon ==
    /\ phase = "ldap"
    /\ all_events' = Append(all_events, Normalize(logon_csv, user_role_map, "logon"))
    /\ phase' = "logon"
    /\ UNCHANGED <<ldap_files, logon_csv, device_csv, http_csv, user_role_map, final_df,
                   groups, narratives, summary_vars>>

\* lines 105-111
ProcessDevice ==
    /\ phase = "logon"
    /\ all_events' = Append(all_events, Normalize(device_csv, user_role_map, "device"))
    /\ phase' = "device"
    /\ UNCHANGED <<ldap_files, logon_csv, device_csv, http_csv, user_role_map, final_df,
                   groups, narratives, summary_vars>>

\* lines 113-120
ProcessHttp ==
    /\ phase = "device"
    /\ all_events' = Append(all_events, Normalize(http_csv, user_role_map, "http"))
    /\ phase' = "http"
    /\ UNCHANGED <<ldap_files, logon_csv, device_csv, http_csv, user_role_map, final_df,
                   groups, narratives, summary_vars>>

\* lines 122-124
CombineAndSort ==
    /\ phase = "http"
    /\ final_df' = SortValues(ConcatEvents(all_events))
    /\ phase' = "sorted"
    /\ UNCHANGED <<ldap_files, logon_csv, device_csv, http_csv, user_role_map, all_events,
                   groups, narratives, summary_vars>>

\* lines 127 and 130: the date column and the grouping
GroupByUserDay ==
    /\ phase = "sorted"
    /\ groups' = GroupBy(final_df)
    /\ phase' = "grouped"
    /\ UNCHANGED <<ldap_files, logon_csv, device_csv, http_csv, user_role_map, all_events,
                   final_df, narratives, summary_vars>>

\* line 130: apply calls the summarizer on the next group, in key order
ApplyGroup ==
    /\ phase = "grouped"
    /\ Len(narratives) < Len(groups)
    /\ LET g == groups[Len(narratives) + 1]
       IN  narratives' = Append(narratives,
               [date |-> g.date_only, user |-> g.user_id,
                narrative |-> create_summary_from_events(g.events)])
    /\ UNCHANGED <<phase, ldap_files, logon_csv, device_csv, http_csv, user_role_map,
                   all_events, final_df, groups, summary_vars>>

\* lines 130-136: reset_index and the renames, once every group is summarized
ReturnOutput ==
    /\ phase = "grouped"
    /\ groups # <<>>
    /\ Len(narratives) = Len(groups)
    /\ phase' = "done"
    /\ UNCHANGED <<ldap_files, logon_csv, device_csv, http_csv, user_role_map, all_events,
                   final_df, groups, narratives, summary_vars>>

\* line 130 with no group at all: apply gives back an empty DataFrame, whose
\* reset_index takes no name argument, so the call raises
ApplyRaises ==
    /\ phase = "grouped"
    /\ groups = <<>>
    /\ phase' = "type_error"
    /\ UNCHANGED <<ldap_files, logon_csv, device_csv, http_csv, user_role_map, all_events,
                   final_df, groups, narratives, summary_vars>>

Next ==
    \/ ProcessLdap
    \/ ProcessLogon
    \/ ProcessDevice
    \/ ProcessHttp
    \/ CombineAndSort
    \/ GroupByUserDay
    \/ ApplyGroup
    \/ ReturnOutput
    \/ ApplyRaises

Spec == Init /\ [][Next]_vars

-----------------------------------------------------------------------------
(* Properties of create_summary_from_events *)

IsHttp(event) == event.activity_type = "http"

\* row k opens a maximal run of http rows
RunStart(events, k) == IsHttp(events[k]) /\ (k = 1 \/ ~IsHttp(events[k - 1]))

\* the last row of the run that row k opens
RunEnd(events, k) ==
    CHOOSE j \in k..Len(events) :
        /\ \A m \in k..j : IsHttp(events[m])
        /\ j = Len(events) \/ ~IsHttp(events[j + 1])

\* rows before row k that have a sentence of their own: non-http rows and run openers
SentencesBefore(events, k) ==
    Cardinality({ j \in 1..(k - 1) : ~IsHttp(events[j]) \/ RunStart(events, j) })

\* where the sentence of row k stands in narrative_parts (the header is part 1)
PartOf(events, k) == SentencesBefore(events, k) + 2

Finished(i) == frame[i] = "returned" /\ calls[i] # <<>>

\* C1: after the header a narrative holds exactly one sentence per non-http event and
\* exactly one web summary per maximal run of http events, in the order of the events
\* and runs of the bucket.
C1_OneSentencePerEventAndRun ==
    \A i \in CallIds : Finished(i) =>
        LET events == calls[i]
            parts  == narrative_parts[i]
        IN  /\ Len(parts) = SentencesBefore(events, Len(events) + 1) + 1
            /\ \A k \in 1..Len(events) :
                   /\ ~IsHttp(events[k]) =>
                          <<parts[PartOf(events, k)]>> = EventSentence(events[k])
                   /\ RunStart(events, k) =>
                          parts[PartOf(events, k)] =
                              WebSentence(SubSeq(events, k, RunEnd(events, k)))

C1_Witness ==
    \E i \in CallIds :
        /\ Finished(i)
        /\ calls[i] = <<LogonAt8, ExampleAt9, TestAt905, LogoffAt17>>
        /\ Len(narrative_parts[i]) = 4
        /\ narrative_parts[i][2] = "Logged on at 08:00:00."
        /\ narrative_parts[i][4] = "Logged off at 17:00:00."

ExampleRun == <<ExampleAt9, TestAt905, ExampleAt910>>

ExampleRunSentence ==
    "Between 09:00:00 and 09:10:00, visited 3 websites, including example.com (2 times), test.org (1 times)."

\* C3: every web summary reports the time of the first event of its run, the time of
\* the last one, and as total the number of http events of the run; the run of the
\* example yields the example's sentence.
C3_WebSummaryReportsRun ==
    \A i \in CallIds : Finished(i) =>
        LET events == calls[i]
            parts  == narrative_parts[i]
        IN  /\ \A k \in 1..Len(events) : RunStart(events, k) =>
                   LET last == RunEnd(events, k)
                   IN  parts[PartOf(events, k)] =
                           "Between " \o Strftime(events[k].timestamp)
                           \o " and " \o Strftime(events[last].timestamp)
                           \o ", visited " \o ToString(last - k + 1)
                           \o " websites, including "
                           \o TopDomainsStr(SubSeq(events, k, last)) \o "."
            /\ events = ExampleRun => parts = <<Header(events), ExampleRunSentence>>

C3_Witness ==
    \E i \in CallIds :
        /\ Finished(i)
        /\ calls[i] = ExampleRun
        /\ narrative_parts[i][2] = ExampleRunSentence

\* the sentence templates of the spec's table, up to the time
Template(activity_type) ==
    CASE activity_type = "logon"             -> "Logged on at "
      [] activity_type = "logoff"            -> "Logged off at "
      [] activity_type = "device_connect"    -> "Connected a USB device at "
      [] activity_type = "device_disconnect" -> "Disconnected a USB device at "

RECURSIVE SpaceJoined(_)
SpaceJoined(parts) ==
    IF Len(parts) = 1 THEN parts[1]
    ELSE SpaceJoined(SubSeq(parts, 1, Len(parts) - 1)) \o " " \o parts[Len(parts)]

LogonOnlyNarrative == "User u123 (Role: ITAdmin) on PC-01: Logged on at 08:00:00."

\* C4: each non-http event produces the template of its activity_type with its own
\* HH:MM:SS time, and the narrative is the header "User {user_id} (Role: {role}) on
\* {pc}:" followed by the sentences, joined with single spaces; one logon at 08:00:00
\* yields the example narrative.
C4_TemplatesHeaderAndJoin ==
    \A i \in CallIds : Finished(i) =>
        LET events == calls[i]
            parts  == narrative_parts[i]
        IN  /\ \A k \in 1..Len(events) : ~IsHttp(events[k]) =>
                   parts[PartOf(events, k)] =
                       Template(events[k].activity_type)
                       \o Strftime(events[k].timestamp) \o "."
            /\ \E k \in 1..Len(events) :
                   parts[1] = "User " \o events[1].user_id \o " (Role: "
                              \o events[1].role \o ") on " \o events[k].pc \o ":"
            /\ returned[i] = SpaceJoined(parts)
            /\ events = <<LogonAt8>> => returned[i] = LogonOnlyNarrative

C4_Witness ==
    \E i \in CallIds :
        /\ Finished(i)
        /\ calls[i] = <<LogonAt8>>
        /\ returned[i] = LogonOnlyNarrative

\* C10: an empty event list produces the empty string, with no header and no sentence,
\* and the invocation ends by returning.
C10_EmptyListGivesEmptyString ==
    \A i \in CallIds : calls[i] = <<>> =>
        /\ frame[i] \in {"called", "returned"}
        /\ frame[i] = "returned" => returned[i] = "" /\ narrative_parts[i] = <<>>

C10_Witness ==
    \E i \in CallIds : calls[i] = <<>> /\ frame[i] = "returned" /\ returned[i] = ""

\* C8: with the rows of several invocations interleaved in any order, every invocation
\* is at each step where it would be running alone, and returns the narrative that
\* summarizing its bucket alone returns.
C8_InterleavingIndependent ==
    \A i \in CallIds :
        /\ frame[i] = "loop" =>
               Closure(i) = Scan([parts |-> <<Header(calls[i])>>, buffer |-> <<>>],
                                 SubSeq(calls[i], 1, cursor[i] - 1))
        /\ frame[i] = "returned" => returned[i] = create_summary_from_events(calls[i])

C8_Witness ==
    \E i, j \in CallIds :
        /\ i # j
        /\ frame[i] = "loop" /\ web_activity_buffer[BufferSlot(i)] # <<>>
        /\ frame[j] = "loop" /\ web_activity_buffer[BufferSlot(j)] # <<>>
        /\ cursor[i] <= Len(calls[i])

\* C9: two invocations on the same ordered bucket return the same narrative.
C9_SameBucketSameNarrative ==
    \A i, j \in CallIds :
        (frame[i] = "returned" /\ frame[j] = "returned" /\ calls[i] = calls[j])
            => returned[i] = returned[j]

C9_Witness ==
    \E i, j \in CallIds :
        /\ i # j
        /\ Finished(i) /\ Finished(j)
        /\ calls[i] = calls[j]
        /\ \E k \in 1..Len(calls[i]) : IsHttp(calls[i][k])
        /\ returned[i] = returned[j]

-----------------------------------------------------------------------------
(* Properties of generate_narratives *)

Sorted == phase \in {"sorted", "grouped", "done", "type_error"}

\* the source a normalized event came from: 1 logon.csv, 2 device.csv, 3 http.csv
SourceOf(event) ==
    CASE event.activity_type \in {"logon", "logoff"} -> 1
      [] event.activity_type \in {"device_connect", "device_disconnect"} -> 2
      [] OTHER -> 3

SameSortKey(a, b) == a.user_id = b.user_id /\ a.timestamp = b.timestamp

\* C2: the sorted stream holds the rows of the concatenation (logon, then device, then
\* http, each in input order), and two rows with equal (user_id, timestamp) stand in the
\* order they have in the concatenation.
C2_MergeStable ==
    Sorted =>
        LET concat == ConcatEvents(all_events)
        IN  /\ Len(final_df) = Len(concat)
            /\ \A k \in 1..Len(concat) : \E j \in 1..Len(final_df) : final_df[j] = concat[k]
            /\ \A i, j \in 1..Len(final_df) :
                   (i < j /\ SameSortKey(final_df[i], final_df[j])) =>
                       /\ concat[final_df[i].index + 1] = final_df[i]
                       /\ concat[final_df[j].index + 1] = final_df[j]
                       /\ final_df[i].index < final_df[j].index
                       /\ SourceOf(final_df[i]) <= SourceOf(final_df[j])

C2_Witness ==
    /\ phase = "sorted"
    /\ \E i, j, k \in 1..Len(final_df) :
           /\ i < j /\ j < k
           /\ SameSortKey(final_df[i], final_df[j]) /\ SameSortKey(final_df[j], final_df[k])
           /\ final_df[i].activity_type = "logoff" /\ final_df[j].activity_type = "logon"
           /\ final_df[k].activity_type = "http"

MalformedUser(row) == Len(Split(row.user, 1)) < 2

HasMalformedUser ==
    \/ \E k \in 1..Len(logon_csv) : MalformedUser(logon_csv[k])
    \/ \E k \in 1..Len(device_csv) : MalformedUser(device_csv[k])
    \/ \E k \in 1..Len(http_csv) : MalformedUser(http_csv[k])

\* C5: a raw record whose user field lacks the '/' separator makes normalization fail
\* with an error surfaced to the caller, so a run that read such a record never returns
\* an output (from which the record would be missing).
C5_MalformedUserFieldSurfaced ==
    HasMalformedUser => phase # "done"

GroupsOf(row) ==
    { g \in 1..Len(groups) :
        \E m \in 1..Len(groups[g].events) : groups[g].events[m] = row }

\* C6: every event of the merged stream is in exactly one bucket, the one keyed by its
\* (user_id, date); no bucket is empty; and the output holds exactly one record per
\* (user_id, date) pair that has an event.
C6_BucketsPartitionMergedStream ==
    /\ phase \in {"grouped", "done"} =>
        /\ \A k \in 1..Len(final_df) :
               /\ Cardinality(GroupsOf(final_df[k])) = 1
               /\ \A g \in GroupsOf(final_df[k]) :
                      /\ groups[g].user_id = final_df[k].user_id
                      /\ groups[g].date_only = DateOnly(final_df[k].timestamp)
        /\ \A g \in 1..Len(groups) : groups[g].events # <<>>
    /\ phase = "done" =>
        /\ \A k \in 1..Len(final_df) :
               Cardinality({ n \in 1..Len(narratives) :
                   /\ narratives[n].user = final_df[k].user_id
                   /\ narratives[n].date = DateOnly(final_df[k].timestamp) }) = 1
        /\ \A n \in 1..Len(narratives) :
               \E k \in 1..Len(final_df) :
                   /\ narratives[n].user = final_df[k].user_id
                   /\ narratives[n].date = DateOnly(final_df[k].timestamp)

MappedUsers == { user_role_map[k].user_id : k \in 1..Len(user_role_map) }

\* the narrative of a group whose header reads "(Role: Unknown)"
UnknownNarrative(g) ==
    LET st == flush_web_buffer(Scan([parts |-> <<"">>, buffer |-> <<>>], g.events))
    IN  JoinWith(" ",
            <<"User " \o g.user_id \o " (Role: Unknown) on "
              \o Mode([k \in 1..Len(g.events) |-> g.events[k].pc]) \o ":">>
            \o Tail(st.parts))

\* C7: with no role-directory file the RoleMap is empty; every event of a user_id that
\* is not in the RoleMap carries role "Unknown", and every narrative header of such a
\* user reads "(Role: Unknown)".
C7_AbsentUserGetsUnknown ==
    /\ (ldap_files = <<>> /\ phase # "start") => user_role_map = <<>>
    /\ \A f \in 1..Len(all_events) : \A k \in 1..Len(all_events[f]) :
           all_events[f][k].user_id \notin MappedUsers => all_events[f][k].role = "Unknown"
    /\ \A k \in 1..Len(final_df) :
           final_df[k].user_id \notin MappedUsers => final_df[k].role = "Unknown"
    /\ \A n \in 1..Len(narratives) :
           narratives[n].user \notin MappedUsers =>
               narratives[n].narrative = UnknownNarrative(groups[n])

C7_Witness ==
    /\ phase = "done"
    /\ ldap_files = <<>>
    /\ \E n, m \in 1..Len(narratives) :
           /\ narratives[n].user = "u123" /\ narratives[m].user = "u456"
           /\ narratives[m].narrative =
                  "User u456 (Role: Unknown) on PC-02: Between 09:00:00 and 09:00:00, visited 1 websites, including test.org (1 times)."

-----------------------------------------------------------------------------
(* Properties of the header and of the web summary *)

PcsOf(events) == [k \in 1..Len(events) |-> events[k].pc]

Occurrences(v, s) == Cardinality({ k \in 1..Len(s) : s[k] = v })

\* the values of s that occur most often
MostFrequent(s) ==
    { v \in { s[k] : k \in 1..Len(s) } :
        \A k \in 1..Len(s) : Occurrences(s[k], s) <= Occurrences(v, s) }

\* the index at which the running count of v reaches the maximum count
ReachesMaxAt(v, s) ==
    CHOOSE k \in 1..Len(s) :
        /\ s[k] = v
        /\ Occurrences(v, SubSeq(s, 1, k)) = Occurrences(v, s)

\* the most frequent value whose count reaches the maximum first, in bucket order
FirstToReachMax(s) ==
    CHOOSE v \in MostFrequent(s) :
        \A w \in MostFrequent(s) : ReachesMaxAt(v, s) <= ReachesMaxAt(w, s)

HeaderWith(events, pc) ==
    "User " \o events[1].user_id \o " (Role: " \o events[1].role \o ") on " \o pc \o ":"

\* C11 as stated: the header names a most frequent pc of the bucket, and among tied
\* values the first one that reaches the maximum count in bucket order.
C11_HeaderNamesFirstToReachMax ==
    \A i \in CallIds : Finished(i) =>
        narrative_parts[i][1] = HeaderWith(calls[i], FirstToReachMax(PcsOf(calls[i])))

\* C11 as amended: the header names a most frequent pc of the bucket, and among tied
\* values the smallest one in ascending string order.
C11_HeaderNamesSmallestMostFrequent ==
    \A i \in CallIds : Finished(i) =>
        \E pc \in MostFrequent(PcsOf(calls[i])) :
            /\ \A w \in MostFrequent(PcsOf(calls[i])) : w = pc \/ StrLess(pc, w)
            /\ narrative_parts[i][1] = HeaderWith(calls[i], pc)

C11_Witness ==
    \E i \in CallIds :
        /\ Finished(i)
        /\ calls[i] = <<ConnectAt8, LogonAt8>>
        /\ narrative_parts[i][1] = "User u123 (Role: ITAdmin) on PC-01:"

DomainsOf(run) == [k \in 1..Len(run) |-> Domain(run[k].url)]

FirstAt(v, s) == CHOOSE k \in 1..Len(s) : s[k] = v /\ \A j \in 1..(k - 1) : s[j] # v

\* a is listed before b: more visits, or as many and seen first
ListedBefore(a, b, s) ==
    \/ Occurrences(a, s) > Occurrences(b, s)
    \/ Occurrences(a, s) = Occurrences(b, s) /\ FirstAt(a, s) < FirstAt(b, s)

\* the domains of s in listing order, cut after the third
TopThree(s) ==
    LET distinct == { s[k] : k \in 1..Len(s) }
        RankOf(d) == Cardinality({ e \in distinct : ListedBefore(e, d, s) }) + 1
        shown    == IF Cardinality(distinct) < 3 THEN Cardinality(distinct) ELSE 3
    IN  [k \in 1..shown |-> CHOOSE d \in distinct : RankOf(d) = k]

RECURSIVE CommaJoined(_)
CommaJoined(items) ==
    IF Len(items) = 1 THEN items[1]
    ELSE CommaJoined(SubSeq(items, 1, Len(items) - 1)) \o ", " \o items[Len(items)]

\* the list of domains a web summary is to show for a run
ExpectedListing(run) ==
    LET s   == DomainsOf(run)
        top == TopThree(s)
    IN  CommaJoined([k \in 1..Len(top) |->
            top[k] \o " (" \o ToString(Occurrences(top[k], s)) \o " times)"])

\* C12: a web summary lists min(3, number of distinct domains of the run) domains, the
\* top ones by count descending with ties broken by first occurrence in the run, in
\* that order, each with its exact count in the run.
C12_TopThreeDomainsListed ==
    \A i \in CallIds : Finished(i) =>
        LET events == calls[i]
        IN  \A k \in 1..Len(events) : RunStart(events, k) =>
                LET run == SubSeq(events, k, RunEnd(events, k))
                IN  narrative_parts[i][PartOf(events, k)] =
                        "Between " \o Strftime(run[1].timestamp)
                        \o " and " \o Strftime(run[Len(run)].timestamp)
                        \o ", visited " \o ToString(Len(run))
                        \o " websites, including " \o ExpectedListing(run) \o "."

C12_Witness ==
    \E i \in CallIds :
        /\ Finished(i)
        /\ calls[i] = <<ExampleAt9, MailAt9, TestAt905, IntranetAt910>>
        /\ narrative_parts[i][2] =
               "Between 09:00:00 and 09:10:00, visited 4 websites, including example.com (1 times), mail.net (1 times), test.org (1 times)."

-----------------------------------------------------------------------------
(* Properties of the buckets and of the normalized frames *)

Grouped == phase \in {"grouped", "done"}

\* C13: in every bucket the events are in non-decreasing timestamp order, events with
\* equal timestamps are in concatenation order (source, then position), and the events
\* of a bucket stand in the order they have in the merged stream.
C13_BucketsKeepMergedOrder ==
    Grouped =>
        \A g \in 1..Len(groups) :
            LET events == groups[g].events
            IN  \A k, m \in 1..Len(events) : k < m =>
                    /\ events[k].timestamp <= events[m].timestamp
                    /\ events[k].timestamp = events[m].timestamp =>
                           /\ events[k].index < events[m].index
                           /\ SourceOf(events[k]) <= SourceOf(events[m])
                    /\ \E a, b \in 1..Len(final_df) :
                           a < b /\ final_df[a] = events[k] /\ final_df[b] = events[m]

C13_Witness ==
    /\ phase = "grouped"
    /\ \E g \in 1..Len(groups) :
           /\ Len(groups[g].events) = 4
           /\ groups[g].events[1].activity_type = "http"
           /\ groups[g].events[1].timestamp = At(1, 7, 30, 0)
           /\ groups[g].events[2].activity_type = "logoff"
           /\ groups[g].events[3].activity_type = "logon"
           /\ groups[g].events[4].activity_type = "device_connect"
           /\ groups[g].events[4].timestamp = At(1, 8, 0, 0)

\* the raw rows the n-th frame of all_events was made from
RawRows(n) ==
    CASE n = 1 -> logon_csv
      [] n = 2 -> device_csv
      [] n = 3 -> http_csv

\* C14: for each source, normalization yields exactly one event per raw record, in
\* record order, whether or not the record's user_id is in the RoleMap and however
\* many role-directory entries the user_id had.
C14_OneEventPerRecord ==
    \A n \in 1..Len(all_events) :
        /\ Len(all_events[n]) = Len(RawRows(n))
        /\ \A k \in 1..Len(all_events[n]) :
               /\ all_events[n][k].user_id = UserId(RawRows(n)[k].user)
               /\ all_events[n][k].timestamp = ToDatetime(RawRows(n)[k].date)
               /\ all_events[n][k].pc = RawRows(n)[k].pc

C14_Witness ==
    /\ phase = "http"
    /\ ldap_files = <<LdapFileA, LdapFileB>>
    /\ Len(logon_csv) = 2 /\ Len(all_events[1]) = 2
    /\ all_events[1][1].user_id = "u123" /\ all_events[1][2].user_id = NaN
    /\ Len(http_csv) = 2 /\ Len(all_events[3]) = 2

-----------------------------------------------------------------------------
(* Properties of the domain extraction *)

HasDoubleSlash(url) == Len(Split(url, 2)) >= 2

\* the domain of a url: with "//", the text after the scheme separator up to the next
\* '/'; without, the part of the whole url before its first '/'
ClaimedDomain(url) ==
    IF HasDoubleSlash(url)
    THEN LET scheme == Split(url, 2)[1]
             rest   == SubSeq(url, Len(scheme) + 3, Len(url))
         IN  Concat(Split(rest, 1)[1])
    ELSE Concat(Split(url, 1)[1])

ClaimedListing(run) ==
    LET s   == [k \in 1..Len(run) |-> ClaimedDomain(run[k].url)]
        top == TopThree(s)
    IN  CommaJoined([k \in 1..Len(top) |->
            top[k] \o " (" \o ToString(Occurrences(top[k], s)) \o " times)"])

\* C15: the flush never raises for a url without "//" and counts it under the part of
\* the whole url before its first '/'; a url with "//" is counted under the text after
\* the scheme separator up to the next '/'.
C15_DomainFollowsSchemeSeparator ==
    \A i \in CallIds :
        /\ frame[i] \in {"called", "loop", "returned"}
        /\ Finished(i) =>
               LET events == calls[i]
               IN  \A k \in 1..Len(events) : RunStart(events, k) =>
                       LET run == SubSeq(events, k, RunEnd(events, k))
                       IN  narrative_parts[i][PartOf(events, k)] =
                               "Between " \o Strftime(run[1].timestamp)
                               \o " and " \o Strftime(run[Len(run)].timestamp)
                               \o ", visited " \o ToString(Len(run))
                               \o " websites, including " \o ClaimedListing(run) \o "."

-----------------------------------------------------------------------------
(* Properties of the activity classification and of the role map *)

ActivityTypes == {"logon", "logoff", "device_connect", "device_disconnect", "http"}

\* C16: an authentication record is a logon exactly when its activity is "Logon" and a
\* logoff otherwise, a device record is a device_connect exactly when its activity is
\* "Connect" and a device_disconnect otherwise, a web record is always http; every
\* event's activity_type is one of the five.
C16_ClassificationTotal ==
    /\ \A n \in 1..Len(all_events) : \A k \in 1..Len(all_events[n]) :
           LET type == all_events[n][k].activity_type
               raw  == RawRows(n)[k]
           IN  /\ type \in ActivityTypes
               /\ n = 1 => /\ type = "logon" <=> raw.activity = "Logon"
                           /\ type = "logoff" <=> raw.activity # "Logon"
               /\ n = 2 => /\ type = "device_connect" <=> raw.activity = "Connect"
                           /\ type = "device_disconnect" <=> raw.activity # "Connect"
               /\ n = 3 => type = "http"
    /\ \A k \in 1..Len(final_df) : final_df[k].activity_type \in ActivityTypes
    /\ \A g \in 1..Len(groups) : \A k \in 1..Len(groups[g].events) :
           groups[g].events[k].activity_type \in ActivityTypes

C16_Witness ==
    /\ phase = "sorted"
    /\ \E a, b \in 1..Len(logon_csv) :
           /\ logon_csv[a].activity = "Unlock" /\ all_events[1][a].activity_type = "logoff"
           /\ logon_csv[b].activity = "Logon" /\ all_events[1][b].activity_type = "logon"
    /\ \E a \in 1..Len(device_csv) :
           device_csv[a].activity = "Disconnect"
               /\ all_events[2][a].activity_type = "device_disconnect"
    /\ \E k \in 1..Len(final_df) : final_df[k].activity_type = "http"

\* the entries of the role directory in read order
DirectoryEntries == Flatten(ldap_files)

\* the role of the last directory entry of a user
LastRoleOf(user_id) ==
    LET last == CHOOSE k \in 1..Len(DirectoryEntries) :
                    /\ DirectoryEntries[k].user_id = user_id
                    /\ \A j \in (k + 1)..Len(DirectoryEntries) :
                           DirectoryEntries[j].user_id # user_id
    IN  DirectoryEntries[last].Role

\* C17: the RoleMap holds at most one role per user_id, and a user_id with several
\* directory entries has the role of its last entry in read order.
C17_RoleMapKeepsLastEntry ==
    phase # "start" =>
        /\ \A a, b \in 1..Len(user_role_map) :
               user_role_map[a].user_id = user_role_map[b].user_id => a = b
        /\ \A k \in 1..Len(DirectoryEntries) :
               \E a \in 1..Len(user_role_map) :
                   user_role_map[a].user_id = DirectoryEntries[k].user_id
        /\ \A a \in 1..Len(user_role_map) :
               /\ \E k \in 1..Len(DirectoryEntries) :
                      DirectoryEntries[k].user_id = user_role_map[a].user_id
               /\ user_role_map[a].role = LastRoleOf(user_role_map[a].user_id)

C17_Witness ==
    /\ phase = "ldap"
    /\ ldap_files = <<LdapFileA, LdapFileB>>
    /\ Len(user_role_map) = 2
    /\ \E a \in 1..Len(user_role_map) :
           user_role_map[a].user_id = "u123" /\ user_role_map[a].role = "Engineer"

-----------------------------------------------------------------------------
(* Properties of the web activity buffer *)

\* the http rows at the end of a prefix of the bucket, back to the last non-http row
TrailingRun(seen) ==
    LET start == CHOOSE k \in 1..(Len(seen) + 1) :
                     /\ \A m \in k..Len(seen) : IsHttp(seen[m])
                     /\ k = 1 \/ ~IsHttp(seen[k - 1])
    IN  SubSeq(seen, start, Len(seen))

HttpCount(events) == Cardinality({ k \in 1..Len(events) : IsHttp(events[k]) })

\* the totals a web summary of a run can be read as reporting
ReadableTotals(sentence, run) ==
    { n \in 0..(Len(run) + 1) :
        sentence = "Between " \o Strftime(run[1].timestamp)
                   \o " and " \o Strftime(run[Len(run)].timestamp)
                   \o ", visited " \o ToString(n) \o " websites, including "
                   \o TopDomainsStr(run) \o "." }

\* the sum of the totals reported by the web summaries of rows k.. of a finished bucket
RECURSIVE SumOfReportedTotals(_, _, _)
SumOfReportedTotals(events, parts, k) ==
    IF k > Len(events) THEN 0
    ELSE IF RunStart(events, k)
         THEN (CHOOSE n \in ReadableTotals(parts[PartOf(events, k)],
                                           SubSeq(events, k, RunEnd(events, k))) : TRUE)
              + SumOfReportedTotals(events, parts, RunEnd(events, k) + 1)
         ELSE SumOfReportedTotals(events, parts, k + 1)

\* C18: at every step of the scan the buffer holds exactly the http events seen since the
\* last non-http event (or since the start); the buffer is empty when the invocation
\* returns; every web summary reports a total, and the totals of a narrative add up to
\* the number of http events of the bucket.
C18_BufferHoldsPendingRun ==
    \A i \in CallIds :
        LET events == calls[i]
            buffer == web_activity_buffer[BufferSlot(i)]
        IN  /\ frame[i] = "loop" =>
                   buffer = TrailingRun(SubSeq(events, 1, cursor[i] - 1))
            /\ frame[i] = "returned" => buffer = <<>>
            /\ Finished(i) =>
                   /\ \A k \in 1..Len(events) : RunStart(events, k) =>
                          ReadableTotals(narrative_parts[i][PartOf(events, k)],
                                         SubSeq(events, k, RunEnd(events, k))) # {}
                   /\ SumOfReportedTotals(events, narrative_parts[i], 1) = HttpCount(events)

C18_Witness ==
    \E i \in CallIds :
        /\ Finished(i)
        /\ calls[i] = <<ExampleAt9, DisconnectAt9, TestAt905, ExampleAt910>>
        /\ web_activity_buffer[BufferSlot(i)] = <<>>
        /\ Len(narrative_parts[i]) = 4
        /\ SumOfReportedTotals(calls[i], narrative_parts[i], 1) = 3

-----------------------------------------------------------------------------
(* Properties of the role within a bucket *)

\* the narrative of a group when its header carries the given role
NarrativeWithRole(g, role) ==
    LET st == flush_web_buffer(Scan([parts |-> <<"">>, buffer |-> <<>>], g.events))
    IN  JoinWith(" ",
            <<"User " \o g.user_id \o " (Role: " \o role \o ") on "
              \o Mode(PcsOf(g.events)) \o ":">>
            \o Tail(st.parts))

\* C19: all events of one bucket carry the same role, so the role of the header, taken
\* from the first event of the bucket, is the role of every event of the bucket,
\* whichever source the first event came from.
C19_OneRolePerBucket ==
    /\ Grouped =>
           \A g \in 1..Len(groups) : \A k \in 1..Len(groups[g].events) :
               groups[g].events[k].role = groups[g].events[1].role
    /\ \A n \in 1..Len(narratives) :
           \A k \in 1..Len(groups[n].events) :
               narratives[n].narrative =
                   NarrativeWithRole(groups[n], groups[n].events[k].role)

C19_Witness ==
    /\ phase = "done"
    /\ ldap_files = <<LdapFileA, LdapFileB>>
    /\ \E n \in 1..Len(narratives) :
           LET events == groups[n].events
           IN  /\ narratives[n].user = "u123"
               /\ Len(events) >= 3
               /\ events[1].activity_type = "http"
               /\ \E k \in 1..Len(events) : events[k].activity_type = "logon"
               /\ \E k \in 1..Len(events) : events[k].activity_type = "device_connect"
               /\ \A k \in 1..Len(events) : events[k].role = "Engineer"
               /\ narratives[n].narrative =
                      NarrativeWithRole(groups[n], "Engineer")

====
